---- MODULE Spec2Model ----
(***************************************************************************)
(* One run of WooCommerceSync.sync_products (src/woocommerce_sync.py):     *)
(* the coordinator thread fetches the Bluefin stock feed, pages through    *)
(* the WooCommerce catalogue, builds the SKU lookup, submits update and    *)
(* create calls to a ThreadPoolExecutor and waits on the futures, while    *)
(* the pool's workers run the submitted calls.                             *)
(*                                                                         *)
(* A SKU is a sequence of one-character strings, so that validate_sku's    *)
(* regular expression is evaluated character by character.  A JSON object  *)
(* is a record whose DOMAIN is the set of keys present; dict.get(k) is a   *)
(* test on the DOMAIN.                                                     *)
(***************************************************************************)
EXTENDS Integers, Sequences, FiniteSets, TLC

\* ------------------------------------------------------------------ bounds
\* Longest upstream feed ("stock" array) drawn.
MaxStock == 2
\* Most pages the WooCommerce server holds before it answers with [].
MaxPages == 2

\* --------------------------------------------------------------- constants
max_retries == 3
max_workers == 5

\* ------------------------------------------------------------ input values
A1 == <<"A", "1">>
B2 == <<"B", "2">>
\* contains a space: rejected by validate_sku
C_3 == <<"C", " ", "3">>
EmptySku == <<>>

EligibleSpecs == {"EU Spec", "Global spec"}
Specs == EligibleSpecs \cup {"Other"}

\* config.blacklist_skus is either empty or {B2}: B2 is an ordinary valid
\* SKU under the first and a blacklisted one under the second.
Blacklists == {{}, {B2}}

Configs ==
    [set_missing_sku_to_zero : BOOLEAN,
     set_no_sku_to_zero      : BOOLEAN,
     track_cost_price        : BOOLEAN,
     blacklist_skus          : Blacklists]

\* Sequences over S of length at most n.
SeqUpTo(S, n) == UNION {[1..k -> S] : k \in 0..n}

\* One upstream stock record; item_spec stands for properties.item_spec.
StockRecord(sku, spec, qty) ==
    [sku |-> sku, item_spec |-> spec, in_stock |-> qty, price |-> "9.99"]

\* The full variety of records, used where filter_stock itself is examined.
AllStockRecords ==
    {StockRecord(s, sp, q) : s \in {A1, B2, C_3}, sp \in Specs, q \in {0, 5}}

\* The records the coordinator's runs are drawn from.  filter_stock treats
\* the two eligible specs alike and drops every other record whatever its
\* fields, so one eligible spec and one ineligible record are kept; the
\* quantity follows the SKU (B2 carries 0, the quantity ZeroStock writes).
RunStockRecords ==
    {StockRecord(A1, "EU Spec", 5), StockRecord(B2, "EU Spec", 0),
     StockRecord(C_3, "EU Spec", 5), StockRecord(A1, "Other", 5)}

\* A downstream product as WooCommerce lists it: "sku" may be absent, empty,
\* valid, blacklisted or malformed.  The platform assigns the ids.
Product(id, sku) == [id |-> id, sku |-> sku]
ProductNoSkuKey(id) == [id |-> id]
ProductsWithId(id) ==
    {Product(id, s) : s \in {A1, B2, C_3, EmptySku}} \cup {ProductNoSkuKey(id)}

\* The server lists one product per page; the product on page k has id k,
\* so ids are distinct.  A page may also be empty.
PageChoices(k) == {<<p>> : p \in ProductsWithId(k)} \cup {<<>>}
PageSeqs(n) == {ps \in SeqUpTo(UNION {PageChoices(k) : k \in 1..n}, n) :
                   \A k \in 1..Len(ps) : ps[k] \in PageChoices(k)}
NonEmptyPageSeqs(n) == {ps \in PageSeqs(n) : \A k \in 1..Len(ps) : ps[k] # <<>>}

\* A JSON string, as an element of a list that should hold objects.
Str(s) == [str |-> s]
IsDict(p) == "str" \notin DOMAIN p
\* The keys of the error object the WooCommerce REST API answers with.
ErrorBodyKeys == <<Str("code"), Str("message"), Str("data")>>

VARIABLES
    config,                \* the Config the run was constructed with
    stock,                 \* the "stock" array the Bluefin endpoint serves
    pages,                 \* the pages the WooCommerce server holds
    pc,                    \* where the coordinator (sync_products) stands
    process,               \* main(): "running", "exit_0" or "exit_1"
    filtered_stock,        \* sync_products: filtered_stock
    all_products,          \* fetch_all_woo_products: all_products
    page,                  \* fetch_all_woo_products: page
    requested,             \* the page numbers requested so far, in order
    fetch_error,           \* some fetch raised or was answered by an error
    existing_products,     \* sync_products: existing_products
    existing_product_map,  \* sync_products: existing_product_map
    idx,                   \* the running index of the current for loop
    futures,               \* sync_products: futures, with each call's state
    raised                 \* an exception is propagating out of the with block

vars == <<config, stock, pages, pc, process, filtered_stock, all_products, page,
          requested, fetch_error, existing_products, existing_product_map, idx,
          futures, raised>>

inputs == <<config, stock, pages>>

\* ---------------------------------------------------------- pure functions
Lower == {"a","b","c","d","e","f","g","h","i","j","k","l","m",
          "n","o","p","q","r","s","t","u","v","w","x","y","z"}
Upper == {"A","B","C","D","E","F","G","H","I","J","K","L","M",
          "N","O","P","Q","R","S","T","U","V","W","X","Y","Z"}
Digit == {"0","1","2","3","4","5","6","7","8","9"}
SkuChars == Lower \cup Upper \cup Digit \cup {"_", "-"}

AllIn(s, C) == \A i \in 1..Len(s) : s[i] \in C

\* re.match(r"^[a-zA-Z0-9_-]+$", sku): one or more characters of the class
\* up to the end of the string; Python's "$" also matches just before a
\* newline that ends the string.
validate_sku(sku) ==
    \/ Len(sku) >= 1 /\ AllIn(sku, SkuChars)
    \/ /\ Len(sku) >= 2
       /\ sku[Len(sku)] = "\n"
       /\ AllIn(SubSeq(sku, 1, Len(sku) - 1), SkuChars)

\* Variant: the blacklist is never consulted.
is_blacklisted_Never(sku) == FALSE

is_blacklisted(sku) == sku \in config.blacklist_skus

\* item.get("sku", "")
SkuOrEmpty(item) == IF "sku" \in DOMAIN item THEN item.sku ELSE EmptySku

\* item.get("properties", {}).get("item_spec") in ["EU Spec", "Global spec"]
HasEligibleSpec(item) ==
    "item_spec" \in DOMAIN item /\ item.item_spec \in EligibleSpecs

\* Variant: the filter forgets the blacklist.
KeepsItem_SpecOnly(item) == HasEligibleSpec(item)

KeepsItem(item) == HasEligibleSpec(item) /\ ~is_blacklisted(SkuOrEmpty(item))

filter_stock(data) == SelectSeq(data, KeepsItem)

\* p.get("sku") is truthy: the key is present and the string is not empty.
HasSku(p) == "sku" \in DOMAIN p /\ p.sku # EmptySku

Max(S) == CHOOSE x \in S : \A y \in S : y <= x

\* {p["sku"]: p for p in existing_products
\*  if p.get("sku") and not self.is_blacklisted(p["sku"])}
\* A dict comprehension keeps, for a key met several times, the value met last.
InIndex(p) == HasSku(p) /\ ~is_blacklisted(p.sku)
\* Variant: for a key met several times the value met first is kept.
BuildProductMap_FirstWins(products) ==
    LET kept == {i \in 1..Len(products) : InIndex(products[i])}
        keys == {products[i].sku : i \in kept}
    IN  [s \in keys |->
            products[CHOOSE i \in kept :
                        /\ products[i].sku = s
                        /\ \A j \in kept : products[j].sku = s => i <= j]]

BuildProductMap(products) ==
    LET kept == {i \in 1..Len(products) : InIndex(products[i])}
        keys == {products[i].sku : i \in kept}
    IN  [s \in keys |-> products[Max({i \in kept : products[i].sku = s})]]

None == "None"

\* The default of the cost_price_field setting, and the meta_data list that
\* carries a cost price: [{"key": cost_price_field, "value": str(price)}].
\* Prices are carried as the text str() gives.
cost_price_field == "_supplier_cost"
MetaData(value) == <<[key |-> cost_price_field, value |-> value]>>

\* The body built for POST products; the fields that only copy descriptive
\* text of the record (name, categories, description, images) are left out.
prepare_product_data(product) ==
    LET data == [regular_price  |-> product.price,
                 stock_quantity |-> product.in_stock,
                 manage_stock   |-> TRUE,
                 sku            |-> product.sku]
    IN  IF config.track_cost_price
        THEN data @@ ("meta_data" :> MetaData(product.price))
        ELSE data

\* executor.submit(self.update_product, product_id, stock_quantity, cost_price)
\* sent lists the request bodies the call has issued so far and slept the
\* delays it has slept; site names the submit statement, src the loop index it was made at.
UpdateCall(site, src, product_id, stock_quantity, cost_price) ==
    [fn |-> "update_product", site |-> site, src |-> src,
     product_id |-> product_id, stock_quantity |-> stock_quantity,
     cost_price |-> cost_price, status |-> "queued", attempt |-> 0,
     sent |-> <<>>, slept |-> <<>>]

\* executor.submit(self.wcapi.post, "products", data)
PostCall(src, data) ==
    [fn |-> "post", site |-> "create", src |-> src, data |-> data,
     status |-> "queued", attempt |-> 0, sent |-> <<>>, slept |-> <<>>]

\* Variant: the validate_sku test is missing.
StockSubmission_NoValidation(i, product, map) ==
    IF product.sku \in DOMAIN map
    THEN <<UpdateCall("update", i, map[product.sku].id, product.in_stock,
                      IF config.track_cost_price THEN product.price ELSE None)>>
    ELSE <<PostCall(i, prepare_product_data(product))>>

\* Variant: the else branch that creates the product is missing.
StockSubmission_NoCreate(i, product, map) ==
    IF validate_sku(product.sku) /\ product.sku \in DOMAIN map
    THEN <<UpdateCall("update", i, map[product.sku].id, product.in_stock,
                      IF config.track_cost_price THEN product.price ELSE None)>>
    ELSE <<>>

\* One iteration of "for product in filtered_stock": what it submits.
StockSubmission(i, product, map) ==
    IF ~validate_sku(product.sku)
    THEN <<>>
    ELSE IF product.sku \in DOMAIN map
         THEN <<UpdateCall("update", i, map[product.sku].id, product.in_stock,
                           IF config.track_cost_price THEN product.price ELSE None)>>
         ELSE <<PostCall(i, prepare_product_data(product))>>

\* Variant: only the records that pass validate_sku count as present.
json_skus_ValidOnly ==
    {filtered_stock[i].sku : i \in {j \in 1..Len(filtered_stock) :
                                        validate_sku(filtered_stock[j].sku)}}

\* json_skus = {p["sku"] for p in filtered_stock}
json_skus == {filtered_stock[i].sku : i \in 1..Len(filtered_stock)}

\* Variant: the test against json_skus is missing.
IsMissing_IgnoresFeed(p, skus) == HasSku(p) /\ ~is_blacklisted(p.sku)

\* One iteration of the missing-SKU loop over existing_products.
IsMissing(p, skus) == HasSku(p) /\ p.sku \notin skus /\ ~is_blacklisted(p.sku)

\* Variant: every listed entry with a SKU is zeroed, indexed or not.
MissingSubmission_EverySku(i, p, skus) ==
    IF HasSku(p) /\ ~is_blacklisted(p.sku)
    THEN <<UpdateCall("missing", i, p.id, 0, None)>> ELSE <<>>

MissingSubmission(i, p, skus) ==
    IF IsMissing(p, skus) THEN <<UpdateCall("missing", i, p.id, 0, None)>> ELSE <<>>

\* Variant: only a missing "sku" key counts, an empty SKU does not.
NoSkuSubmission_KeyOnly(i, p) ==
    IF "sku" \notin DOMAIN p THEN <<UpdateCall("no_sku", i, p.id, 0, None)>> ELSE <<>>

\* One iteration of the no-SKU loop over existing_products.
NoSkuSubmission(i, p) ==
    IF ~HasSku(p) THEN <<UpdateCall("no_sku", i, p.id, 0, None)>> ELSE <<>>

\* ------------------------------------------------------------- coordinator
\* Where the coordinator stands once a loop iteration is over: the loop
\* tests and the two flag tests are evaluated as part of the step before.
\* fs is the futures list as the step leaves it.
WaitPos(i, fs) == IF i <= Len(fs) THEN <<"wait", i>> ELSE <<"shutdown", 0>>

AfterNoSku(i, fs) ==
    IF config.set_no_sku_to_zero /\ i <= Len(existing_products)
    THEN <<"submit_no_sku", i>>
    ELSE WaitPos(1, fs)

AfterMissing(i, fs) ==
    IF config.set_missing_sku_to_zero /\ i <= Len(existing_products)
    THEN <<"submit_missing", i>>
    ELSE AfterNoSku(1, fs)

AfterStock(i, fs) ==
    IF i <= Len(filtered_stock) THEN <<"submit_stock", i>> ELSE AfterMissing(1, fs)

\* Variant: the exception is logged and swallowed, and the run carries on
\* with what it has.
Fail_Swallowed == pc' = "build_map" /\ process' = process

\* An exception leaves sync_products ("Synchronization failed", raise) and
\* main() answers it with sys.exit(1).
Fail == pc' = "failed" /\ process' = "exit_1"

\* What the WooCommerce server holds for page n.
ServerPage(n) == IF n <= Len(pages) THEN pages[n] ELSE <<>>

\* stock_data = self.fetch_stock_data(); filtered_stock = self.filter_stock(...)
FetchStock ==
    /\ pc = "fetch_stock"
    /\ filtered_stock' = filter_stock(stock)
    /\ pc' = "fetch_products"
    /\ UNCHANGED <<inputs, process, all_products, page, requested, fetch_error,
                   existing_products, existing_product_map, idx, futures, raised>>

\* session.get raises, or raise_for_status() does on a non-2xx answer.
FetchStockFails ==
    /\ pc = "fetch_stock"
    /\ fetch_error' = TRUE
    /\ Fail
    /\ UNCHANGED <<inputs, filtered_stock, all_products, page, requested,
                   existing_products, existing_product_map, idx, futures, raised>>

\* One turn of the while loop of fetch_all_woo_products, the request answered
\* with the page the server holds: an empty page ends the loop and the
\* function returns all_products.
FetchPage ==
    /\ pc = "fetch_products"
    /\ requested' = Append(requested, page)
    /\ IF ServerPage(page) = <<>>
       THEN /\ existing_products' = all_products
            /\ pc' = "build_map"
            /\ UNCHANGED <<all_products, page>>
       ELSE /\ all_products' = all_products \o ServerPage(page)
            /\ page' = page + 1
            /\ UNCHANGED <<existing_products, pc>>
    /\ UNCHANGED <<inputs, process, filtered_stock, fetch_error,
                   existing_product_map, idx, futures, raised>>

\* wcapi.get raises (connection error, timeout) or the body is not JSON and
\* .json() raises: logged and re-raised.
FetchPageRaises ==
    /\ pc = "fetch_products"
    /\ requested' = Append(requested, page)
    /\ fetch_error' = TRUE
    /\ Fail
    /\ UNCHANGED <<inputs, filtered_stock, all_products, page, existing_products,
                   existing_product_map, idx, futures, raised>>

\* The server answers with an error status and its JSON error object.  The
\* status is never looked at: .json() returns the object, which is truthy,
\* and list.extend(dict) appends its keys.  The loop goes on to the next page.
\* (No more such answers are drawn than there are pages to ask for.)
FetchPageErrorBody ==
    /\ pc = "fetch_products"
    /\ page <= MaxPages + 1
    /\ requested' = Append(requested, page)
    /\ fetch_error' = TRUE
    /\ all_products' = all_products \o ErrorBodyKeys
    /\ page' = page + 1
    /\ UNCHANGED <<inputs, pc, process, filtered_stock, existing_products,
                   existing_product_map, idx, futures, raised>>

\* existing_product_map = {...}; p.get on an element that is a string raises
\* AttributeError.  On success the with block is entered and the first loop
\* that has something to iterate over is reached.
BuildMap ==
    /\ pc = "build_map"
    /\ IF \A i \in 1..Len(existing_products) : IsDict(existing_products[i])
       THEN /\ existing_product_map' = BuildProductMap(existing_products)
            /\ pc' = AfterStock(1, futures)[1]
            /\ idx' = AfterStock(1, futures)[2]
            /\ UNCHANGED process
       ELSE /\ Fail
            /\ UNCHANGED <<existing_product_map, idx>>
    /\ UNCHANGED <<inputs, filtered_stock, all_products, page, requested,
                   fetch_error, existing_products, futures, raised>>

\* product["sku"], product["in_stock"], product["price"] and the subscripts of
\* prepare_product_data raise KeyError on a record that lacks the key.  The
\* SKU is read first; a record whose SKU fails validate_sku is left before
\* any other field is read.
RaisesKeyError(product, map) ==
    \/ "sku" \notin DOMAIN product
    \/ /\ validate_sku(product.sku)
       /\ IF product.sku \in DOMAIN map
          THEN \/ "in_stock" \notin DOMAIN product
               \/ config.track_cost_price /\ "price" \notin DOMAIN product
          ELSE \/ "price" \notin DOMAIN product
               \/ "in_stock" \notin DOMAIN product

\* for product in filtered_stock: ...  Nothing in the loop catches an
\* exception: a KeyError leaves the with block as the exception of a call does.
SubmitStock ==
    /\ pc = "submit_stock"
    /\ IF RaisesKeyError(filtered_stock[idx], existing_product_map)
       THEN /\ raised' = TRUE
            /\ pc' = "shutdown"
            /\ idx' = 0
            /\ UNCHANGED futures
       ELSE LET fs == futures \o StockSubmission(idx, filtered_stock[idx],
                                                 existing_product_map)
            IN  /\ futures' = fs
                /\ pc' = AfterStock(idx + 1, fs)[1]
                /\ idx' = AfterStock(idx + 1, fs)[2]
                /\ UNCHANGED raised
    /\ UNCHANGED <<inputs, process, filtered_stock, all_products, page, requested,
                   fetch_error, existing_products, existing_product_map>>

\* if self.config.set_missing_sku_to_zero: for existing_product in ...
SubmitMissing ==
    /\ pc = "submit_missing"
    /\ LET fs == futures \o MissingSubmission(idx, existing_products[idx], json_skus)
       IN  /\ futures' = fs
           /\ pc' = AfterMissing(idx + 1, fs)[1]
           /\ idx' = AfterMissing(idx + 1, fs)[2]
    /\ UNCHANGED <<inputs, process, filtered_stock, all_products, page, requested,
                   fetch_error, existing_products, existing_product_map, raised>>

\* if self.config.set_no_sku_to_zero: for existing_product in ...
SubmitNoSku ==
    /\ pc = "submit_no_sku"
    /\ LET fs == futures \o NoSkuSubmission(idx, existing_products[idx])
       IN  /\ futures' = fs
           /\ pc' = AfterNoSku(idx + 1, fs)[1]
           /\ idx' = AfterNoSku(idx + 1, fs)[2]
    /\ UNCHANGED <<inputs, process, filtered_stock, all_products, page, requested,
                   fetch_error, existing_products, existing_product_map, raised>>

\* The state sync_products starts in.
Start ==
    /\ pc = "fetch_stock"
    /\ process = "running"
    /\ filtered_stock = <<>>
    /\ all_products = <<>>
    /\ page = 1
    /\ requested = <<>>
    /\ fetch_error = FALSE
    /\ existing_products = <<>>
    /\ existing_product_map = <<>>
    /\ idx = 0
    /\ futures = <<>>
    /\ raised = FALSE

\* The coordinator alone, on runs whose two fetches succeed, up to its wait
\* on the futures.  No worker step writes the inputs, the fetched data or the
\* list of submitted calls, so what is dispatched is decided here.
InitPlan ==
    /\ config \in Configs
    /\ stock \in SeqUpTo(RunStockRecords, MaxStock)
    /\ pages \in NonEmptyPageSeqs(MaxPages)
    /\ Start

NextPlan ==
    \/ FetchStock
    \/ FetchPage
    \/ BuildMap
    \/ SubmitStock
    \/ SubmitMissing
    \/ SubmitNoSku

SpecPlan == InitPlan /\ [][NextPlan]_vars

\* ------------------------------------------------------------ worker pool
\* Variant: a future counts as over as soon as it is asked for.
Finished_Always(f) == TRUE

\* future.done(): the call has returned or raised.
Finished(f) == f.status \in {"done", "failed"}
Running == {k \in 1..Len(futures) : futures[k].status = "running"}

\* Variant: shutdown(wait=False).
PoolIdle_NoWait == TRUE

\* ThreadPoolExecutor.__exit__ is shutdown(wait=True): it returns once every
\* submitted call has run to its end.
PoolIdle == \A k \in 1..Len(futures) : Finished(futures[k])

\* Variant: the pool starts a thread for every submitted call.
WorkerFree_Unbounded == TRUE

\* One of the pool's max_workers threads is not running a call.
WorkerFree == Cardinality(Running) < max_workers

\* A worker takes the oldest queued call; the pool has max_workers threads.
StartCall(k) ==
    /\ futures[k].status = "queued"
    /\ \A j \in 1..(k - 1) : futures[j].status # "queued"
    /\ WorkerFree
    /\ futures' = [futures EXCEPT ![k].status = "running"]
    /\ UNCHANGED <<inputs, pc, process, filtered_stock, all_products, page,
                   requested, fetch_error, existing_products,
                   existing_product_map, idx, raised>>

\* Variant: the cost price is never added.
update_data_NoCost(f) == [stock_quantity |-> f.stock_quantity]

\* update_data, the body of PUT products/{id}: the stock quantity, and the
\* cost price as meta_data when one was passed and tracking is on.
update_data(f) ==
    IF f.cost_price # None /\ config.track_cost_price
    THEN [stock_quantity |-> f.stock_quantity, meta_data |-> MetaData(f.cost_price)]
    ELSE [stock_quantity |-> f.stock_quantity]

\* Variant: every delay is the base delay.
Backoff_Fixed(attempt) == 1

\* time.sleep(2 ** attempt)
Backoff(attempt) == 2 ^ attempt

\* attempt == max_retries - 1
IsLastAttempt(attempt) == attempt = max_retries - 1

\* update_product: wcapi.put returns (whatever the status of the answer,
\* which is not looked at) and the call returns.
PutReturns(k) ==
    /\ futures[k].status = "running"
    /\ futures[k].fn = "update_product"
    /\ futures' = [futures EXCEPT ![k].status = "done",
                                  ![k].attempt = @ + 1,
                                  ![k].sent = Append(@, update_data(futures[k]))]
    /\ UNCHANGED <<inputs, pc, process, filtered_stock, all_products, page,
                   requested, fetch_error, existing_products,
                   existing_product_map, idx, raised>>

\* Variant: after the last attempt the retry loop starts over.
PutRaises_Restarts(k) ==
    /\ futures[k].status = "running"
    /\ futures[k].fn = "update_product"
    /\ futures' = [futures EXCEPT
                     ![k].attempt = IF IsLastAttempt(futures[k].attempt) THEN 0 ELSE @ + 1,
                     ![k].sent = IF IsLastAttempt(futures[k].attempt)
                                 THEN <<>> ELSE Append(@, update_data(futures[k])),
                     ![k].slept = IF IsLastAttempt(futures[k].attempt)
                                  THEN <<>>
                                  ELSE Append(@, Backoff(futures[k].attempt))]
    /\ UNCHANGED <<inputs, pc, process, filtered_stock, all_products, page,
                   requested, fetch_error, existing_products,
                   existing_product_map, idx, raised>>

\* update_product: wcapi.put raises.  On the last attempt the exception is
\* re-raised and ends the call; before it the worker sleeps and tries again.
PutRaises(k) ==
    /\ futures[k].status = "running"
    /\ futures[k].fn = "update_product"
    /\ futures' = [futures EXCEPT
                     ![k].attempt = @ + 1,
                     ![k].sent = Append(@, update_data(futures[k])),
                     ![k].status = IF IsLastAttempt(futures[k].attempt)
                                   THEN "failed" ELSE @,
                     ![k].slept = IF IsLastAttempt(futures[k].attempt)
                                  THEN @
                                  ELSE Append(@, Backoff(futures[k].attempt))]
    /\ UNCHANGED <<inputs, pc, process, filtered_stock, all_products, page,
                   requested, fetch_error, existing_products,
                   existing_product_map, idx, raised>>

\* wcapi.post returns a response (its status is not looked at).
PostReturns(k) ==
    /\ futures[k].status = "running"
    /\ futures[k].fn = "post"
    /\ futures' = [futures EXCEPT ![k].status = "done", ![k].attempt = @ + 1,
                                  ![k].sent = Append(@, futures[k].data)]
    /\ UNCHANGED <<inputs, pc, process, filtered_stock, all_products, page,
                   requested, fetch_error, existing_products,
                   existing_product_map, idx, raised>>

\* Variant: a failed POST is tried again, as a PUT is.
PostRaises_Retries(k) ==
    /\ futures[k].status = "running"
    /\ futures[k].fn = "post"
    /\ futures' = [futures EXCEPT
                     ![k].attempt = @ + 1,
                     ![k].sent = Append(@, futures[k].data),
                     ![k].status = IF IsLastAttempt(futures[k].attempt)
                                   THEN "failed" ELSE @]
    /\ UNCHANGED <<inputs, pc, process, filtered_stock, all_products, page,
                   requested, fetch_error, existing_products,
                   existing_product_map, idx, raised>>

\* wcapi.post raises: the future holds the exception.
PostRaises(k) ==
    /\ futures[k].status = "running"
    /\ futures[k].fn = "post"
    /\ futures' = [futures EXCEPT ![k].status = "failed", ![k].attempt = @ + 1,
                                  ![k].sent = Append(@, futures[k].data)]
    /\ UNCHANGED <<inputs, pc, process, filtered_stock, all_products, page,
                   requested, fetch_error, existing_products,
                   existing_product_map, idx, raised>>

\* for future in futures: future.result() -- blocks until the call is over,
\* returns its result or raises its exception, which leaves the with block.
WaitFuture ==
    /\ pc = "wait"
    /\ Finished(futures[idx])
    /\ IF futures[idx].status = "failed"
       THEN /\ raised' = TRUE
            /\ pc' = "shutdown"
            /\ idx' = 0
       ELSE /\ pc' = WaitPos(idx + 1, futures)[1]
            /\ idx' = WaitPos(idx + 1, futures)[2]
            /\ UNCHANGED raised
    /\ UNCHANGED <<inputs, process, filtered_stock, all_products, page, requested,
                   fetch_error, existing_products, existing_product_map, futures>>

\* The with block is left: the executor is shut down, then either the
\* completion is logged and main() returns, or the exception goes on to the
\* except clause of sync_products and to main().
Shutdown ==
    /\ pc = "shutdown"
    /\ PoolIdle
    /\ IF raised
       THEN Fail
       ELSE pc' = "done" /\ process' = "exit_0"
    /\ UNCHANGED <<inputs, filtered_stock, all_products, page, requested,
                   fetch_error, existing_products, existing_product_map, idx,
                   futures, raised>>

\* ------------------------------------------------------------ the whole run
\* The records and products the whole run, workers included, is drawn from.
ExecStockRecords == {StockRecord(A1, "EU Spec", 5), StockRecord(B2, "EU Spec", 0)}
ExecConfigs == {c \in Configs : c.blacklist_skus = {} /\ c.track_cost_price}
ExecPageSeqs ==
    {ps \in PageSeqs(MaxPages) :
        \A k \in 1..Len(ps) : ps[k] \in {<<>>, <<Product(k, A1)>>, <<ProductNoSkuKey(k)>>}}

Init ==
    /\ config \in ExecConfigs
    /\ stock \in SeqUpTo(ExecStockRecords, MaxStock)
    /\ pages \in ExecPageSeqs
    /\ Start

Next ==
    \/ FetchStock
    \/ FetchStockFails
    \/ FetchPage
    \/ FetchPageRaises
    \/ FetchPageErrorBody
    \/ BuildMap
    \/ SubmitStock
    \/ SubmitMissing
    \/ SubmitNoSku
    \/ \E k \in 1..Len(futures) : StartCall(k)
    \/ \E k \in 1..Len(futures) : PutReturns(k)
    \/ \E k \in 1..Len(futures) : PutRaises(k)
    \/ \E k \in 1..Len(futures) : PostReturns(k)
    \/ \E k \in 1..Len(futures) : PostRaises(k)
    \/ WaitFuture
    \/ Shutdown

Spec == Init /\ [][Next]_vars

\* ------------------------------------------------- properties of the plan
\* Every submit statement of the with block has been passed.
DispatchComplete == pc \in {"wait", "shutdown", "done"} \/ (pc = "failed" /\ raised)

Calls == 1..Len(futures)
Filtered == 1..Len(filtered_stock)
Listed == 1..Len(existing_products)

\* The calls a submit statement made, and those it made at loop index i.
CallsAt(site) == {k \in Calls : futures[k].site = site}
CallsFrom(site, i) == {k \in CallsAt(site) : futures[k].src = i}
\* The update_product calls, of any submit statement, that target an id.
CallsTargeting(id) ==
    {k \in Calls : futures[k].fn = "update_product" /\ futures[k].product_id = id}
\* UpdateStock(id, qty) and Create(sku) operations dispatched.
UpdateStockCalls(id, qty) ==
    {k \in CallsAt("update") :
        futures[k].product_id = id /\ futures[k].stock_quantity = qty}
CreateCalls(sku) == {k \in CallsAt("create") : futures[k].data.sku = sku}

Indexed(sku) == sku \in DOMAIN existing_product_map

\* C1 as stated: for every record that passes filter_stock and whose SKU is
\* a key of the catalog index, exactly one UpdateStock targeting the indexed
\* entry's id with the record's quantity is dispatched, and no Create for
\* that SKU.
C1_AsStated ==
    DispatchComplete =>
        \A i \in Filtered :
            LET r == filtered_stock[i] IN
            Indexed(r.sku) =>
                /\ Cardinality(UpdateStockCalls(existing_product_map[r.sku].id,
                                                r.in_stock)) = 1
                /\ CreateCalls(r.sku) = {}

\* C1 amended: for every record that passes filter_stock whose SKU passes
\* validate_sku and is a key of the catalog index, exactly one update_product
\* call is dispatched for that record, it targets the indexed entry's id with
\* the record's quantity, the UpdateStock calls with that id and quantity are
\* as many as the filtered records with that SKU and quantity (one when the
\* SKU is unique in the feed), and no Create carries that SKU.  A record whose
\* SKU fails validate_sku gets no call although its SKU is indexed.
C1_UpdateForIndexedValidSku ==
    DispatchComplete =>
        \A i \in Filtered :
            LET r == filtered_stock[i] IN
            Indexed(r.sku) =>
                IF validate_sku(r.sku)
                THEN /\ Cardinality(CallsFrom("update", i)) = 1
                     /\ \A k \in CallsFrom("update", i) :
                            /\ futures[k].product_id = existing_product_map[r.sku].id
                            /\ futures[k].stock_quantity = r.in_stock
                     /\ Cardinality(UpdateStockCalls(existing_product_map[r.sku].id,
                                                     r.in_stock))
                          = Cardinality({j \in Filtered :
                                /\ filtered_stock[j].sku = r.sku
                                /\ filtered_stock[j].in_stock = r.in_stock})
                     /\ CreateCalls(r.sku) = {}
                     /\ CallsFrom("create", i) = {}
                ELSE CallsFrom("update", i) = {} /\ CallsFrom("create", i) = {}

\* A valid, indexed SKU met twice in the filtered feed has been dispatched.
C1_Witness ==
    /\ DispatchComplete
    /\ \E i, j \in Filtered :
          /\ i < j
          /\ filtered_stock[i].sku = filtered_stock[j].sku
          /\ validate_sku(filtered_stock[i].sku)
          /\ Indexed(filtered_stock[i].sku)
          /\ CallsFrom("update", i) # {}

\* C2 as stated: for every record that passes filter_stock and whose SKU is
\* not a key of the catalog index, exactly one Create carrying that SKU is
\* dispatched and no UpdateStock derived from the record.
C2_AsStated ==
    DispatchComplete =>
        \A i \in Filtered :
            LET r == filtered_stock[i] IN
            ~Indexed(r.sku) =>
                /\ Cardinality(CreateCalls(r.sku)) = 1
                /\ CallsFrom("update", i) = {}

\* C2 amended: for every record that passes filter_stock whose SKU passes
\* validate_sku and is not a key of the catalog index, exactly one POST
\* products is dispatched for that record, it carries the record's SKU, the
\* Creates carrying that SKU are as many as the filtered records with that
\* SKU (one when the SKU is unique in the feed), and no UpdateStock is derived
\* from the record.  A record whose SKU fails validate_sku gets no Create.
C2_CreateForUnindexedValidSku ==
    DispatchComplete =>
        \A i \in Filtered :
            LET r == filtered_stock[i] IN
            ~Indexed(r.sku) =>
                IF validate_sku(r.sku)
                THEN /\ Cardinality(CallsFrom("create", i)) = 1
                     /\ \A k \in CallsFrom("create", i) : futures[k].data.sku = r.sku
                     /\ Cardinality(CreateCalls(r.sku))
                          = Cardinality({j \in Filtered : filtered_stock[j].sku = r.sku})
                     /\ CallsFrom("update", i) = {}
                ELSE CallsFrom("create", i) = {} /\ CallsFrom("update", i) = {}

\* A record with a valid SKU the index does not hold got its Create in a run
\* in which another record got an UpdateStock.
C2_Witness ==
    /\ DispatchComplete
    /\ \E i, j \in Filtered :
          /\ ~Indexed(filtered_stock[i].sku)
          /\ validate_sku(filtered_stock[i].sku)
          /\ CallsFrom("create", i) # {}
          /\ CallsFrom("update", j) # {}

\* The products the server holds, on any page.
ServedProducts ==
    UNION {{pages[n][m] : m \in 1..Len(pages[n])} : n \in 1..Len(pages)}

\* C3: whatever the flags, no dispatched operation references a blacklisted
\* SKU: no Create carries it, and no UpdateStock or ZeroStock targets the id
\* of a downstream entry whose SKU it is, whether the SKU is upstream,
\* downstream or both.
C3_BlacklistedSkuUntouched ==
    \A s \in config.blacklist_skus :
        /\ CreateCalls(s) = {}
        /\ \A p \in ServedProducts :
              ("sku" \in DOMAIN p /\ p.sku = s) => CallsTargeting(p.id) = {}

\* A blacklisted SKU that is in the feed with an eligible spec and in the
\* fetched listing, in a run with both zeroing flags on that dispatched calls.
C3_Witness ==
    /\ DispatchComplete
    /\ config.set_missing_sku_to_zero /\ config.set_no_sku_to_zero
    /\ futures # <<>>
    /\ \E s \in config.blacklist_skus :
          /\ \E i \in 1..Len(stock) :
                stock[i].sku = s /\ stock[i].item_spec \in EligibleSpecs
          /\ \E i \in Listed : existing_products[i] = Product(existing_products[i].id, s)

\* The ids the missing-SKU rule zeroed.
ZeroedAsMissing == {futures[k].product_id : k \in CallsAt("missing")}

\* C4 as stated: with set_missing_sku_to_zero the entries zeroed by the rule
\* are exactly the catalog-index entries whose SKU no filtered record has;
\* without the flag none is.
C4_AsStated ==
    DispatchComplete =>
        IF config.set_missing_sku_to_zero
        THEN ZeroedAsMissing =
                {existing_product_map[s].id :
                    s \in {t \in DOMAIN existing_product_map :
                              \A i \in Filtered : filtered_stock[i].sku # t}}
        ELSE CallsAt("missing") = {}

\* An entry of the listing the missing-SKU rule is about: its SKU is a
\* non-empty string, not blacklisted, and no filtered record has it.
AbsentUpstream(p) ==
    /\ "sku" \in DOMAIN p
    /\ p.sku # <<>>
    /\ p.sku \notin config.blacklist_skus
    /\ \A i \in Filtered : filtered_stock[i].sku # p.sku

\* C4 amended: with set_missing_sku_to_zero, update_product(id, 0) is
\* dispatched exactly once for every entry of the downstream listing whose
\* SKU is a key of the catalog index and is not the SKU of any filtered
\* record -- for each of several entries sharing such a SKU, not only for the
\* one the index holds -- and for no other entry; without the flag no such
\* call is dispatched.
C4_ZeroEveryListedEntryAbsentUpstream ==
    DispatchComplete =>
        IF config.set_missing_sku_to_zero
        THEN /\ ZeroedAsMissing =
                  {existing_products[i].id :
                      i \in {j \in Listed : AbsentUpstream(existing_products[j])}}
             /\ \A i \in Listed :
                   /\ Cardinality(CallsFrom("missing", i))
                        = IF AbsentUpstream(existing_products[i]) THEN 1 ELSE 0
                   /\ \A k \in CallsFrom("missing", i) :
                         /\ futures[k].product_id = existing_products[i].id
                         /\ futures[k].stock_quantity = 0
                   /\ AbsentUpstream(existing_products[i])
                         => Indexed(existing_products[i].sku)
             /\ \A k \in CallsAt("missing") : futures[k].src \in Listed
        ELSE CallsAt("missing") = {}

\* Two listed entries share a SKU that no filtered record has, and both were
\* zeroed.
C4_Witness ==
    /\ DispatchComplete
    /\ config.set_missing_sku_to_zero
    /\ \E i, j \in Listed :
          /\ i < j
          /\ HasSku(existing_products[i])
          /\ HasSku(existing_products[j])
          /\ existing_products[i].sku = existing_products[j].sku
          /\ CallsFrom("missing", i) # {}
          /\ CallsFrom("missing", j) # {}

\* An entry of the listing without a SKU: no "sku" key, or an empty one.
LacksSku(p) == "sku" \notin DOMAIN p \/ p.sku = <<>>

\* C5: with set_no_sku_to_zero, update_product(id, 0) is dispatched exactly
\* once for every entry of the full downstream listing whose SKU is missing
\* or empty, and the rule zeroes no other entry; without the flag no
\* operation at all targets such an entry.
C5_ZeroEveryEntryWithoutSku ==
    DispatchComplete =>
        /\ \A i \in Listed :
              LacksSku(existing_products[i]) =>
                 IF config.set_no_sku_to_zero
                 THEN /\ Cardinality(CallsTargeting(existing_products[i].id)) = 1
                      /\ \A k \in CallsTargeting(existing_products[i].id) :
                            /\ futures[k].site = "no_sku"
                            /\ futures[k].stock_quantity = 0
                            /\ futures[k].cost_price = None
                 ELSE CallsTargeting(existing_products[i].id) = {}
        /\ \A k \in CallsAt("no_sku") :
              /\ config.set_no_sku_to_zero
              /\ \E i \in Listed :
                    /\ LacksSku(existing_products[i])
                    /\ existing_products[i].id = futures[k].product_id

\* An entry with no "sku" key and one with an empty SKU were both zeroed.
C5_Witness ==
    /\ DispatchComplete
    /\ config.set_no_sku_to_zero
    /\ \E i, j \in Listed :
          /\ "sku" \notin DOMAIN existing_products[i]
          /\ "sku" \in DOMAIN existing_products[j]
          /\ existing_products[j].sku = <<>>
          /\ CallsTargeting(existing_products[i].id) # {}
          /\ CallsTargeting(existing_products[j].id) # {}

\* ------------------------------------------------------------ filter_stock
\* filter_stock applied to feeds of every variety of record.
InitFilter ==
    /\ config \in {c \in Configs : /\ c.set_missing_sku_to_zero
                                   /\ c.set_no_sku_to_zero
                                   /\ c.track_cost_price}
    /\ stock \in SeqUpTo(AllStockRecords, MaxStock + 1)
    /\ pages = <<>>
    /\ Start

NextFilter ==
    \/ FetchStock
    \/ FetchStockFails

SpecFilter == InitFilter /\ [][NextFilter]_vars

\* The positions of the feed whose record is eligible and not blacklisted.
KeptPositions ==
    {i \in 1..Len(stock) :
        /\ stock[i].item_spec \in {"EU Spec", "Global spec"}
        /\ stock[i].sku \notin config.blacklist_skus}

\* C6: filter_stock keeps a record iff its spec is eligible and its SKU is not
\* blacklisted, excludes every record of another spec, and keeps the kept
\* records in their input order: the j-th record of the output is the record
\* at the j-th kept position of the input.
C6_FilterKeepsEligibleInOrder ==
    pc = "fetch_products" =>
        /\ Len(filtered_stock) = Cardinality(KeptPositions)
        /\ \A j \in 1..Len(filtered_stock) :
              \E i \in KeptPositions :
                  /\ Cardinality({h \in KeptPositions : h <= i}) = j
                  /\ filtered_stock[j] = stock[i]
        /\ \A j \in 1..Len(filtered_stock) :
              /\ filtered_stock[j].item_spec \in {"EU Spec", "Global spec"}
              /\ filtered_stock[j].sku \notin config.blacklist_skus

\* A feed of three records: the first, of spec "Global spec", and the third,
\* a different record, are kept in that order, and the second is dropped.
C6_Witness ==
    /\ pc = "fetch_products"
    /\ Len(stock) = 3
    /\ stock[1].item_spec = "Global spec"
    /\ stock[1] # stock[3]
    /\ filtered_stock = <<stock[1], stock[3]>>
    /\ config.blacklist_skus # {}

\* -------------------------------------------------- properties of the run
RECURSIVE ConcatPages(_)
\* The concatenation of the server's pages 1..n.
ConcatPages(n) == IF n = 0 THEN <<>> ELSE ConcatPages(n - 1) \o ServerPage(n)

\* The first page the server answers with an empty array.
FirstEmptyPage == CHOOSE n \in 1..(Len(pages) + 1) :
                     /\ ServerPage(n) = <<>>
                     /\ \A m \in 1..(n - 1) : ServerPage(m) # <<>>

\* C7 as stated: fetch_all_woo_products requests pages 1, 2, 3, ... in
\* order, stops at the first empty page and returns the concatenation of the
\* pages before it; a page request that fails (network error or error
\* response) is surfaced to the caller: the function does not go on and does
\* not return a listing.
C7_AsStated ==
    /\ \A n \in 1..Len(requested) : requested[n] = n
    /\ pc = "build_map" =>
          /\ Len(requested) = FirstEmptyPage
          /\ existing_products = ConcatPages(FirstEmptyPage - 1)
    /\ (fetch_error /\ requested # <<>>) => pc = "failed"

\* C8: when the upstream fetch or a page of the downstream listing fails,
\* nothing is ever dispatched to the downstream client and the run can only
\* end Failed with exit status 1; whenever a call has been dispatched, both
\* fetches completed without a failure.
C8_NoWriteAfterFailedFetch ==
    /\ fetch_error =>
          /\ futures = <<>>
          /\ pc \in {"fetch_products", "build_map", "failed"}
          /\ pc = "failed" => process = "exit_1"
          /\ pc = "build_map" =>
                \E i \in Listed : ~IsDict(existing_products[i])
    /\ futures # <<>> =>
          /\ ~fetch_error
          /\ pc \notin {"fetch_stock", "fetch_products", "build_map"}
          /\ Len(requested) = FirstEmptyPage

\* The second page request failed in a run that had records to dispatch, and
\* the run ended Failed.
C8_Witness ==
    /\ fetch_error
    /\ pc = "failed"
    /\ process = "exit_1"
    /\ Len(requested) >= 2
    /\ filtered_stock # <<>>
    /\ futures = <<>>

\* C9 as stated: the failure of an individual operation, after its final
\* attempt, is not fatal: the run does not end Failed and the exit status
\* stays zero.
C9_AsStated ==
    (\E k \in Calls : futures[k].status = "failed") =>
        (pc # "failed" /\ process # "exit_1")

\* C10: every call submitted to the pool is executed to completion, whatever
\* the outcome of the others: when the run has ended, Done or Failed, each
\* submitted call has run and has either returned or raised for good.
C10_EveryCallRunsToCompletion ==
    pc \in {"done", "failed"} =>
        \A k \in Calls : Finished(futures[k]) /\ futures[k].attempt >= 1

\* The run ended on the failure of one call, and a call submitted after it
\* still ran and returned.
C10_Witness ==
    /\ pc = "failed"
    /\ raised
    /\ \E j, k \in Calls :
          /\ j < k
          /\ futures[j].status = "failed"
          /\ futures[k].status = "done"

\* ---------------------------------------------- properties of the calls
\* The update_product calls (UpdateStock and ZeroStock) and the Creates.
UpdateCalls == {k \in Calls : futures[k].fn = "update_product"}
PostCalls == {k \in Calls : futures[k].fn = "post"}

\* The delays update_product sleeps after its first and second failure.
BackoffDelays == <<1, 2>>

\* C11: an update_product call issues at least 1 and at most 3 PUTs.  It
\* stops at the first PUT that returns; after the k-th PUT raised, k < 3, it
\* has slept the delays 1, 2, ... doubling each time, one per failure, before
\* the next PUT; after the 3rd PUT raised it reports failure with no further
\* PUT and no further delay.  (A failed attempt is a PUT that raises.)
C11_AtMostThreePutsWithDoublingBackoff ==
    \A k \in UpdateCalls :
        LET f == futures[k] IN
        /\ Len(f.sent) = f.attempt
        /\ f.attempt <= 3
        /\ f.status = "queued" => f.attempt = 0
        /\ f.status = "running" =>
              f.attempt <= 2 /\ f.slept = SubSeq(BackoffDelays, 1, f.attempt)
        /\ f.status = "done" =>
              f.attempt >= 1 /\ f.slept = SubSeq(BackoffDelays, 1, f.attempt - 1)
        /\ f.status = "failed" => f.attempt = 3 /\ f.slept = BackoffDelays

\* One call failed after three PUTs and another returned on its second.
C11_Witness ==
    \E j, k \in UpdateCalls :
        /\ futures[j].status = "failed" /\ Len(futures[j].sent) = 3
        /\ futures[k].status = "done" /\ Len(futures[k].sent) = 2
        /\ futures[k].slept = <<1>>

\* C12: a Create is never retried: at most one POST products is issued for
\* each planned Create, whether it returns or raises, and a Create that has
\* ended issued exactly one.
C12_CreatePostedAtMostOnce ==
    \A k \in PostCalls :
        /\ Len(futures[k].sent) <= 1
        /\ Finished(futures[k]) <=> Len(futures[k].sent) = 1
        /\ futures[k].slept = <<>>

\* The run ended on a Create whose single POST raised.
C12_Witness ==
    /\ pc = "failed"
    /\ \E k \in PostCalls :
          futures[k].status = "failed" /\ futures[k].sent = <<futures[k].data>>

\* ------------------------------------------------- more calls than workers
\* Runs that plan around max_workers calls: a feed of n records the catalog
\* does not hold (n Creates), a listed entry whose SKU the feed lacks and a
\* listed entry without SKU, both zeroed.
PoolFeed(n) == [i \in 1..n |-> StockRecord(B2, "EU Spec", 0)]

\* Every flag on, nothing blacklisted; a catalog of an entry of SKU A1 and an
\* entry without SKU, one per page.
FlagsOn == [set_missing_sku_to_zero |-> TRUE, set_no_sku_to_zero |-> TRUE,
            track_cost_price |-> TRUE, blacklist_skus |-> {}]
TwoEntryCatalog == <<<<Product(1, A1)>>, <<ProductNoSkuKey(2)>>>>

InitPool ==
    /\ config = FlagsOn
    /\ stock \in {PoolFeed(n) : n \in (max_workers - 2)..max_workers}
    /\ pages = TwoEntryCatalog
    /\ Start

SpecPool == InitPool /\ [][Next]_vars

\* C13: in every reachable state the calls in flight (started by a worker and
\* not yet over) are at most max_workers = 5, however many were submitted.
C13_AtMostFiveInFlight ==
    /\ max_workers = 5
    /\ Cardinality(Running) <= max_workers
    /\ \A k \in Calls : futures[k].attempt > 0 /\ ~Finished(futures[k]) => k \in Running

\* All five workers are busy while submitted calls still queue.
C13_Witness ==
    /\ Cardinality(Running) = max_workers
    /\ Len(futures) > max_workers
    /\ \E k \in Calls : futures[k].status = "queued"

\* ------------------------------------------------------------ validate_sku
\* Runs over one upstream record whose SKU is any string of at most MaxSkuLen
\* characters of SkuAlphabet: letters, a digit, the hyphen, the underscore,
\* a space and a newline.  The catalog holds one entry without SKU, so that a
\* record that passes validate_sku is created.
MaxSkuLen == 2
SkuAlphabet == {"a", "Z", "0", "-", "_", " ", "\n"}

InitSku ==
    /\ config = [set_missing_sku_to_zero |-> TRUE, set_no_sku_to_zero |-> TRUE,
                 track_cost_price |-> FALSE, blacklist_skus |-> {}]
    /\ stock \in {<<StockRecord(s, "EU Spec", 5)>> : s \in SeqUpTo(SkuAlphabet, MaxSkuLen)}
    /\ pages = <<<<ProductNoSkuKey(1)>>>>
    /\ Start

SpecSku == InitSku /\ [][NextPlan]_vars

\* Non-empty and made only of ASCII letters, digits, hyphens and underscores.
WellFormedSku(sku) == Len(sku) >= 1 /\ AllIn(sku, SkuChars)

\* C14 as stated: validate_sku(sku) is true if and only if sku is non-empty
\* and each of its characters is an ASCII letter, a digit, a hyphen or an
\* underscore; so a filtered record is given a call exactly when its SKU is so
\* made.
C14_AsStated ==
    /\ \A i \in Filtered :
          validate_sku(filtered_stock[i].sku) <=> WellFormedSku(filtered_stock[i].sku)
    /\ DispatchComplete =>
          \A i \in Filtered :
              CallsFrom("create", i) # {} <=> WellFormedSku(filtered_stock[i].sku)

\* C15 as stated: a filtered record whose SKU is invalid (empty, or holding a
\* character that is not an ASCII letter, a digit, a hyphen or an underscore)
\* is skipped: no Create and no UpdateStock is dispatched for it, the records
\* after it are still gone through, and the run does not end Failed over it.
C15_AsStated ==
    /\ pc # "failed"
    /\ \A i \in Filtered :
          ~WellFormedSku(filtered_stock[i].sku) =>
              CallsFrom("create", i) = {} /\ CallsFrom("update", i) = {}

\* ------------------------------------------- properties of the catalog index
\* existing_product_map has been built.
IndexBuilt == pc \in {"submit_stock", "submit_missing", "submit_no_sku", "wait", "shutdown", "done"}

\* The positions of the listing that hold an entry of SKU s.
ListedWithSku(s) ==
    {i \in Listed : "sku" \in DOMAIN existing_products[i] /\ existing_products[i].sku = s}

\* C16 as stated: the catalog index never holds an entry whose SKU is
\* blacklisted, missing or empty, maps each SKU to one entry of that SKU, and
\* of several listed entries with one SKU it holds the first in listing order.
C16_AsStated ==
    IndexBuilt =>
        \A s \in DOMAIN existing_product_map :
            /\ s # EmptySku
            /\ s \notin config.blacklist_skus
            /\ "sku" \in DOMAIN existing_product_map[s]
            /\ existing_product_map[s].sku = s
            /\ \E j \in ListedWithSku(s) :
                  /\ existing_products[j] = existing_product_map[s]
                  /\ \A i \in ListedWithSku(s) : j <= i

\* C16 amended: the catalog index never holds an entry whose SKU is
\* blacklisted, missing or empty; its keys are exactly the non-empty,
\* non-blacklisted SKUs of the listing; it maps each key to one listed entry
\* of that SKU, and of several listed entries with one SKU it holds the last
\* in listing order.
C16_IndexHoldsLastSeenEntry ==
    IndexBuilt =>
        /\ \A s \in DOMAIN existing_product_map :
              /\ s # EmptySku
              /\ s \notin config.blacklist_skus
              /\ "sku" \in DOMAIN existing_product_map[s]
              /\ existing_product_map[s].sku = s
              /\ \E j \in ListedWithSku(s) :
                    /\ existing_products[j] = existing_product_map[s]
                    /\ \A i \in ListedWithSku(s) : i <= j
        /\ \A i \in Listed :
              LET p == existing_products[i] IN
              ("sku" \in DOMAIN p /\ p.sku # EmptySku /\ p.sku \notin config.blacklist_skus)
                  => p.sku \in DOMAIN existing_product_map

\* The index was built from a listing in which two entries share an indexed
\* SKU, and holds the later of the two.
C16_Witness ==
    /\ IndexBuilt
    /\ \E i, j \in Listed :
          /\ i < j
          /\ "sku" \in DOMAIN existing_products[i]
          /\ j \in ListedWithSku(existing_products[i].sku)
          /\ existing_products[i].sku \in DOMAIN existing_product_map
          /\ existing_product_map[existing_products[i].sku] = existing_products[j]

\* ------------------------------------------ properties of the whole dispatch
\* No SKU occurs twice in the upstream feed.
UniqueFeedSkus ==
    \A i, j \in 1..Len(stock) : stock[i].sku = stock[j].sku => i = j

\* C17: when the SKUs of the upstream feed are unique (the ids of the
\* downstream entries are distinct), whatever the flags, the calls of a run
\* target pairwise disjoint resources: no two update_product calls
\* (UpdateStock or ZeroStock) carry the same product id and no two Creates
\* carry the same SKU.
C17_DisjointTargets ==
    UniqueFeedSkus =>
        \A j, k \in Calls :
            j # k =>
                /\ (futures[j].fn = "update_product" /\ futures[k].fn = "update_product")
                      => futures[j].product_id # futures[k].product_id
                /\ (futures[j].fn = "post" /\ futures[k].fn = "post")
                      => futures[j].data.sku # futures[k].data.sku

\* A feed of two records of unique SKUs, both zeroing flags on, and a
\* dispatch that holds an UpdateStock next to a ZeroStock.
C17_Witness ==
    /\ DispatchComplete
    /\ UniqueFeedSkus
    /\ config.set_missing_sku_to_zero /\ config.set_no_sku_to_zero
    /\ Len(stock) >= 2
    /\ CallsAt("update") # {}
    /\ CallsAt("no_sku") # {} \/ CallsAt("missing") # {}

\* ------------------------------------------------ records that lack a field
\* Eligible upstream records without the sku key, without in_stock (its SKU
\* is in the catalog) and without price (its SKU is not).
NoSkuRecord == [item_spec |-> "EU Spec", in_stock |-> 5, price |-> "9.99"]
NoInStockRecord == [sku |-> A1, item_spec |-> "EU Spec", price |-> "9.99"]
NoPriceRecord == [sku |-> B2, item_spec |-> "EU Spec", in_stock |-> 0]
MalformedRecords == {NoSkuRecord, NoInStockRecord, NoPriceRecord}

InitMalformed ==
    /\ config = FlagsOn
    /\ stock \in SeqUpTo(ExecStockRecords \cup MalformedRecords, MaxStock)
    /\ pages = TwoEntryCatalog
    /\ Start

SpecMalformed == InitMalformed /\ [][Next]_vars

RequiredFields == {"sku", "in_stock", "price"}
Complete(r) == RequiredFields \subseteq DOMAIN r

\* C18 as stated: a filtered record that lacks a required field is skipped:
\* the run does not abort over it, so a run whose fetches succeeded and none
\* of whose calls failed ends Done, and once the dispatch is over every
\* complete record of valid SKU has got its call.
C18_AsStated ==
    /\ (process # "running" /\ ~fetch_error /\ \A k \in Calls : futures[k].status # "failed")
          => pc = "done"
    /\ (pc \in {"wait", "shutdown", "done"} /\ ~fetch_error) =>
          \A i \in Filtered :
              (Complete(filtered_stock[i]) /\ validate_sku(filtered_stock[i].sku))
                  => CallsFrom("update", i) \cup CallsFrom("create", i) # {}

\* ------------------------------------------------------- the bodies of PUT
\* Runs with cost tracking on and off, over records of different prices.
BodyStockRecords ==
    {StockRecord(A1, "EU Spec", 5),
     [StockRecord(A1, "EU Spec", 0) EXCEPT !.price = "4.50"],
     StockRecord(B2, "EU Spec", 0)}

InitBody ==
    /\ config \in {[FlagsOn EXCEPT !.track_cost_price = t] : t \in BOOLEAN}
    /\ stock \in SeqUpTo(BodyStockRecords, MaxStock)
    /\ pages = TwoEntryCatalog
    /\ Start

SpecBody == InitBody /\ [][Next]_vars

\* The bodies call k has sent with PUT products/{id}, one per attempt.
BodiesSent(k) == {futures[k].sent[n] : n \in 1..Len(futures[k].sent)}

\* C19: every PUT body of an UpdateStock derived from an upstream record
\* carries the record's quantity, and carries the cost-price meta_data entry
\* (key cost_price_field, value the record's price) if and only if
\* track_cost_price is on; every PUT body of a ZeroStock is stock_quantity 0
\* and nothing else, whether track_cost_price is on or off.
C19_CostPriceInBodyIffTracked ==
    \A k \in UpdateCalls :
        \A b \in BodiesSent(k) :
            IF futures[k].site = "update"
            THEN LET r == filtered_stock[futures[k].src] IN
                 /\ b.stock_quantity = r.in_stock
                 /\ "meta_data" \in DOMAIN b <=> config.track_cost_price
                 /\ "meta_data" \in DOMAIN b =>
                       b.meta_data = <<[key |-> cost_price_field, value |-> r.price]>>
                 /\ DOMAIN b \subseteq {"stock_quantity", "meta_data"}
            ELSE b = [stock_quantity |-> 0]

\* With tracking on, an UpdateStock has sent a body with the price of its
\* record, which is not the price of the record before it, and a ZeroStock
\* has sent its body.
C19_Witness ==
    /\ config.track_cost_price
    /\ \E j, k \in UpdateCalls :
          /\ futures[j].site = "update"
          /\ futures[j].src = 2
          /\ filtered_stock[1].price # filtered_stock[2].price
          /\ \E b \in BodiesSent(j) : "meta_data" \in DOMAIN b
          /\ futures[k].site \in {"missing", "no_sku"}
          /\ BodiesSent(k) # {}

\* ------------------------------------------------------- the end of the run
\* C20: the coordinator leaves the with block for the completion log and
\* Done, exit status 0, only after every call submitted in the run is over:
\* in no state is the run Done, or about to log its completion, while a call
\* is still queued or running.
C20_DoneOnlyAfterAllCallsOver ==
    /\ (pc = "done" \/ (pc = "shutdown" /\ ~raised)) =>
          \A k \in Calls :
              futures[k].status \notin {"queued", "running"} /\ futures[k].attempt >= 1
    /\ process = "exit_0" => pc = "done"
    /\ pc = "done" => process = "exit_0"
    /\ pc = "wait" =>
          \A k \in 1..(idx - 1) : futures[k].status \notin {"queued", "running"}

\* A run of at least two calls, one of which needed a second attempt, is Done.
C20_Witness ==
    /\ pc = "done"
    /\ Len(futures) >= 2
    /\ \E k \in Calls : futures[k].attempt >= 2

\* -------------------------------------------------------------- termination
\* The steps of the coordinator (the thread that runs sync_products) and the
\* steps of the pool's worker threads.
Coordinator ==
    \/ FetchStock
    \/ FetchStockFails
    \/ FetchPage
    \/ FetchPageRaises
    \/ FetchPageErrorBody
    \/ BuildMap
    \/ SubmitStock
    \/ SubmitMissing
    \/ SubmitNoSku
    \/ WaitFuture
    \/ Shutdown

Worker ==
    \E k \in 1..Len(futures) :
        \/ StartCall(k)
        \/ PutReturns(k)
        \/ PutRaises(k)
        \/ PostReturns(k)
        \/ PostRaises(k)

\* The main thread runs on while it is not blocked; the workers are
\* scheduled, and a request that was sent is answered or fails (the client
\* has a timeout of 30 s), so a worker with a step to take takes one.
Fairness == WF_vars(Coordinator) /\ WF_vars(Worker)

\* Runs with every flag on, the setting that submits the most calls, over
\* feeds of one kind of record: an UpdateStock where the listing holds its
\* SKU, a Create where it does not.
InitLive ==
    /\ config = FlagsOn
    /\ stock \in SeqUpTo({StockRecord(A1, "EU Spec", 5)}, MaxStock)
    /\ pages \in ExecPageSeqs
    /\ Start

SpecLive == InitLive /\ [][Next]_vars /\ Fairness

\* C21: when every network call returns or fails and the listing comes to an
\* empty page, every run ends, Done with exit status 0 or Failed with exit
\* status 1: neither the pagination loop, nor the retry loop of a call, nor
\* the wait on the futures goes on for ever.
C21_EveryRunTerminates ==
    <>(\/ pc = "done" /\ process = "exit_0"
       \/ pc = "failed" /\ process = "exit_1")

\* A run that asked for three pages and in which a call raised twice before
\* its third PUT returned has ended Done.
C21_Witness ==
    /\ pc = "done"
    /\ process = "exit_0"
    /\ Len(requested) = 3
    /\ \E k \in UpdateCalls : futures[k].attempt = max_retries

\* ------------------------------------- records skipped for their SKU format
\* Runs over feeds that hold records validate_sku rejects, one of them with
\* the empty SKU, against every listing and every setting.
SkipStockRecords ==
    {StockRecord(A1, "EU Spec", 5), StockRecord(C_3, "EU Spec", 5),
     StockRecord(EmptySku, "EU Spec", 5)}

InitSkip ==
    /\ config \in Configs
    /\ stock \in SeqUpTo(SkipStockRecords, MaxStock)
    /\ pages \in NonEmptyPageSeqs(MaxPages)
    /\ Start

SpecSkip == InitSkip /\ [][NextPlan]_vars

\* C22 as stated: a downstream entry whose SKU is the SKU of a filtered
\* record that validate_sku rejects gets no operation in the run, neither
\* UpdateStock nor ZeroStock, whatever the flags.
C22_AsStated ==
    DispatchComplete =>
        \A i \in Filtered :
            ~validate_sku(filtered_stock[i].sku) =>
                \A j \in ListedWithSku(filtered_stock[i].sku) :
                    CallsTargeting(existing_products[j].id) = {}

\* C22 amended: json_skus holds the SKU of every filtered record, those
\* skipped by validate_sku included, so a downstream entry whose SKU is the
\* non-empty SKU of such a record gets no operation in the run, neither
\* UpdateStock nor ZeroStock, even with set_missing_sku_to_zero on.  When the
\* shared SKU is the empty string, the entry is an entry without SKU: it is
\* zeroed once by the no-SKU rule when set_no_sku_to_zero is on, and gets no
\* operation otherwise.  No Create carries the SKU of a skipped record.
C22_SkippedSkuShieldsEntry ==
    DispatchComplete =>
        \A i \in Filtered :
            LET s == filtered_stock[i].sku IN
            ~validate_sku(s) =>
                /\ s \in json_skus
                /\ CreateCalls(s) = {}
                /\ \A j \in ListedWithSku(s) :
                      LET id == existing_products[j].id IN
                      IF s = EmptySku /\ config.set_no_sku_to_zero
                      THEN /\ CallsTargeting(id) \subseteq CallsAt("no_sku")
                           /\ Cardinality(CallsTargeting(id)) = 1
                      ELSE CallsTargeting(id) = {}

\* With set_missing_sku_to_zero on, the listing holds an entry whose non-empty
\* SKU a skipped record carries, and another entry was zeroed as missing.
C22_Witness ==
    /\ DispatchComplete
    /\ config.set_missing_sku_to_zero
    /\ CallsAt("missing") # {}
    /\ \E i \in Filtered :
          /\ ~validate_sku(filtered_stock[i].sku)
          /\ filtered_stock[i].sku # EmptySku
          /\ ListedWithSku(filtered_stock[i].sku) # {}
====
